---- MODULE Spec2Model ----
(***************************************************************************)
(* asset-tracking: the status-evaluation and record-reconciliation engine. *)
(*                                                                         *)
(* The store (tables assets and asset_attributes), the clock, the          *)
(* requirement lists read from the environment, and the ingestion loop of  *)
(* asset_data_parser with its loop-local variables.  Python strings are    *)
(* sequences of one-character strings, so that upper(), lower(), rfind()   *)
(* and split() are computed and not assumed.  Time is counted in days.     *)
(*                                                                         *)
(* Spec is the single process of cli.py: ingestion, sweeps and status      *)
(* updates.  Settings reads the requirement lists back from a configured   *)
(* environment, TwoWriters interleaves two ingesting processes statement   *)
(* by statement, and Maintenance adds the two deletions of cli.py.         *)
(***************************************************************************)
EXTENDS Integers, Sequences, FiniteSets, TLC

VARIABLES
    now,      \* datetime.datetime.utcnow(), in days
    env,      \* os.environ: the two requirement variables
    db,       \* the store: assets, attributes, and the calls of the last operation
    parser,   \* the frame of asset_data_parser: its arguments and loop variables
    pre,      \* the store as it was before the last operation
    writers   \* the frames of the processes that ingest side by side

vars == <<now, env, db, parser, pre, writers>>

---------------------------------------------------------------------------
(* Python values *)

None == [ty |-> "None"]
Unbound == [ty |-> "unbound"]                   \* a local name never assigned
Str(s) == [ty |-> "str", s |-> s]
DateTime(t, tz) == [ty |-> "datetime", t |-> t, tz |-> tz]   \* tz: aware (UTC) or naive
TimeStr(fmt, t, tz) == [ty |-> "timestr", fmt |-> fmt, t |-> t, tz |-> tz]

\* bool(v): None and the empty string are falsy
Truthy(v) ==
    CASE v.ty = "None" -> FALSE
      [] v.ty = "str" -> v.s # <<>>
      [] OTHER -> TRUE

\* dict.get(key)
Get(event, key) == IF key \in DOMAIN event THEN event[key] ELSE None

LowerCase == <<"a", "b", "c", "d", "h", "w">>
UpperCase == <<"A", "B", "C", "D", "H", "W">>

UpperChar(c) ==
    IF \E i \in 1..Len(LowerCase) : LowerCase[i] = c
    THEN UpperCase[CHOOSE i \in 1..Len(LowerCase) : LowerCase[i] = c]
    ELSE c

LowerChar(c) ==
    IF \E i \in 1..Len(UpperCase) : UpperCase[i] = c
    THEN LowerCase[CHOOSE i \in 1..Len(UpperCase) : UpperCase[i] = c]
    ELSE c

Upper(s) == [i \in 1..Len(s) |-> UpperChar(s[i])]
Lower(s) == [i \in 1..Len(s) |-> LowerChar(s[i])]

\* s.rfind(c) + 1: the place after the last c, 0 when there is none
RFind1(s, c) ==
    IF \E i \in 1..Len(s) : s[i] = c
    THEN CHOOSE i \in 1..Len(s) : s[i] = c /\ \A j \in (i+1)..Len(s) : s[j] # c
    ELSE 0

RECURSIVE Split(_, _)
Split(s, c) ==
    IF \E i \in 1..Len(s) : s[i] = c
    THEN LET i == CHOOSE k \in 1..Len(s) : s[k] = c /\ \A j \in 1..(k-1) : s[j] # c
         IN  <<SubSeq(s, 1, i - 1)>> \o Split(SubSeq(s, i + 1, Len(s)), c)
    ELSE <<s>>

---------------------------------------------------------------------------
(* config.py *)

max_attribute_absence == 4
max_asset_absence == 6

Unset == [ty |-> "unset"]

RequireList(value) ==
    IF value = Unset THEN <<>>
    ELSE IF \E i \in 1..Len(value.s) : value.s[i] = ","
         THEN Split(value.s, ",")
         ELSE <<>>

require_all_attributes == RequireList(env.ASSET_TRACKING_REQUIRE_ALL_ATTRIBUTES)
require_one_attribute == RequireList(env.ASSET_TRACKING_REQUIRE_ONE_ATTRIBUTE)

---------------------------------------------------------------------------
(* database/schema.py and database/operations.py.  d is a store:           *)
(* [assets, attributes, trace]; every operator returns the store after it. *)
(* A DateTime column keeps the wall-clock fields and no timezone.          *)

Logged(d, call) == [d EXCEPT !.trace = Append(@, call)]

MaxId(rows) == IF rows = <<>> THEN 0
               ELSE LET ids == {rows[i].id : i \in 1..Len(rows)}
                    IN  CHOOSE m \in ids : \A k \in ids : k <= m

AssetIndex(d, id) == CHOOSE i \in 1..Len(d.assets) : d.assets[i].id = id
AssetById(d, id) == d.assets[AssetIndex(d, id)]

\* Asset.last_observed_time, Attribute.last_observed_time
last_observed_time(row) ==
    IF row.last_observed = None THEN None ELSE DateTime(row.last_observed.t, TRUE)

\* what the column holds of a datetime handed to it
Column(dt) == IF dt = None THEN None ELSE DateTime(dt.t, FALSE)

\* a variant of get_asset_by_name that compares the hostnames as they are written
get_asset_by_name_exact(d, asset_name) ==
    LET found == {i \in 1..Len(d.assets) : d.assets[i].hostname = asset_name}
    IN  IF found = {} THEN None
        ELSE d.assets[CHOOSE i \in found : \A j \in found : i <= j]

get_asset_by_name(d, asset_name) ==
    LET found == {i \in 1..Len(d.assets) : Upper(d.assets[i].hostname) = Upper(asset_name)}
    IN  IF found = {} THEN None
        ELSE d.assets[CHOOSE i \in found : \A j \in found : i <= j]

\* a variant of create_asset on a table without the unique index on hostname
create_asset_unchecked(d, hostname, status, last_observed) ==
    LET id == MaxId(d.assets) + 1
        asset == [id |-> id, hostname |-> Upper(hostname), status |-> status,
                  last_observed |-> Column(last_observed)]
    IN  [ok |-> TRUE, id |-> id,
         d |-> Logged([d EXCEPT !.assets = Append(@, asset)],
                      [fn |-> "create_asset", id |-> id])]

\* the result: [ok, d, id]; the unique index on hostname rejects a duplicate
create_asset(d, hostname, status, last_observed) ==
    IF \E i \in 1..Len(d.assets) : d.assets[i].hostname = Upper(hostname)
    THEN [ok |-> FALSE, d |-> d, id |-> 0]
    ELSE LET id == MaxId(d.assets) + 1
             asset == [id |-> id, hostname |-> Upper(hostname), status |-> status,
                       last_observed |-> Column(last_observed)]
         IN  [ok |-> TRUE, id |-> id,
              d |-> Logged([d EXCEPT !.assets = Append(@, asset)],
                           [fn |-> "create_asset", id |-> id])]

update_asset_status(d, id, status) ==
    Logged([d EXCEPT !.assets[AssetIndex(d, id)].status = status],
           [fn |-> "update_asset_status", id |-> id, status |-> status])

\* a variant of update_asset_observation_time that leaves the stored time
update_asset_observation_time_dropped(d, id, observed_time) ==
    Logged(d, [fn |-> "update_asset_observation_time", id |-> id])

update_asset_observation_time(d, id, observed_time) ==
    Logged([d EXCEPT !.assets[AssetIndex(d, id)].last_observed = Column(observed_time)],
           [fn |-> "update_asset_observation_time", id |-> id])

get_asset_attributes(d, asset_id) ==
    SelectSeq(d.attributes, LAMBDA a : a.asset_id = asset_id)

\* a variant of get_attribute_by_name that finds nothing
get_attribute_by_name_never(d, asset_id, attribute_name) == None

get_attribute_by_name(d, asset_id, attribute_name) ==
    LET found == {i \in 1..Len(d.attributes) :
                    /\ d.attributes[i].asset_id = asset_id
                    /\ d.attributes[i].name = attribute_name}
    IN  IF found = {} THEN None
        ELSE d.attributes[CHOOSE i \in found : \A j \in found : i <= j]

assign_attribute(d, asset_id, attribute_name, last_observed, detail) ==
    LET id == MaxId(d.attributes) + 1
        attribute == [id |-> id, asset_id |-> asset_id, name |-> attribute_name,
                      last_observed |-> Column(last_observed), detail |-> detail,
                      status |-> "good"]
    IN  Logged([d EXCEPT !.attributes = Append(@, attribute)],
               [fn |-> "assign_attribute", id |-> id])

AttributeIndex(d, id) == CHOOSE i \in 1..Len(d.attributes) : d.attributes[i].id = id

AttributeStatus(value) == [ty |-> "AttributeStatus", value |-> value]

\* a variant of delete_asset that deletes the asset row alone
delete_asset_alone(d, id) ==
    Logged([d EXCEPT !.assets = SelectSeq(@, LAMBDA a : a.id # id)],
           [fn |-> "delete_asset", id |-> id])

\* delete_asset(db, asset): the attributes of the asset, then the asset
delete_asset(d, id) ==
    Logged([d EXCEPT !.attributes = SelectSeq(@, LAMBDA a : a.asset_id # id),
                     !.assets = SelectSeq(@, LAMBDA a : a.id # id)],
           [fn |-> "delete_asset", id |-> id])

\* remove_attribute(db, attribute)
remove_attribute(d, id) ==
    Logged([d EXCEPT !.attributes = SelectSeq(@, LAMBDA a : a.id # id)],
           [fn |-> "remove_attribute", id |-> id])

\* update_attribute(db, attribute, last_observed=None, detail=None, status=None)
update_attribute(d, id, last_observed, detail, status) ==
    LET i == AttributeIndex(d, id)
        a == d.attributes[i]
        b == [a EXCEPT
                !.last_observed = IF last_observed # None THEN Column(last_observed) ELSE @,
                !.detail = IF detail # None THEN detail ELSE @,
                !.status = IF status.ty = "AttributeStatus" THEN status.value ELSE @]
    IN  Logged([d EXCEPT !.attributes[i] = b],
               [fn |-> "update_attribute", id |-> id, status |-> status])

---------------------------------------------------------------------------
(* core.py: the Attribute Staleness Evaluator and the Compliance Classifier *)

\* item: an asset or an attribute row; the elapsed days since it was observed
time_since_observation(item, clock) ==
    IF item.last_observed = None THEN 0
    ELSE clock - last_observed_time(item).t

\* a variant of line 50 that takes the threshold itself for an absence
attribute_is_absent_at_threshold(elapsed_time) == elapsed_time >= max_attribute_absence

\* line 50: elapsed_time > datetime.timedelta(days=max_attribute_absence)
attribute_is_absent(elapsed_time) == elapsed_time > max_attribute_absence

\* a variant of lines 48-56 that flips a missing attribute to good before it
\* looks at its age
evaluate_age_of_attribute_flipping(d, attribute, clock) ==
    LET stored == d.attributes[AttributeIndex(d, attribute.id)]
        elapsed_time == time_since_observation(stored, clock)
    IN  IF stored.status = "missing"
        THEN update_attribute(d, stored.id, None, None, AttributeStatus("good"))
        ELSE IF attribute_is_absent(elapsed_time)
             THEN update_attribute(d, stored.id, None, None, AttributeStatus("missing"))
             ELSE d

\* a variant of lines 48-56 that also stamps the attribute it marks missing
\* with the time of the evaluation
evaluate_age_of_attribute_stamping(d, attribute, clock) ==
    LET stored == d.attributes[AttributeIndex(d, attribute.id)]
        elapsed_time == time_since_observation(stored, clock)
    IN  IF attribute_is_absent(elapsed_time)
        THEN update_attribute(d, stored.id, DateTime(clock, TRUE), None,
                              AttributeStatus("missing"))
        ELSE IF stored.status = "missing"
             THEN update_attribute(d, stored.id, None, None, AttributeStatus("good"))
             ELSE d

\* one pass of the loop of evaluate_age_of_all_attributes_and_update_status
evaluate_age_of_attribute(d, attribute, clock) ==
    LET stored == d.attributes[AttributeIndex(d, attribute.id)]
        elapsed_time == time_since_observation(stored, clock)
    IN  IF attribute_is_absent(elapsed_time)
        THEN update_attribute(d, stored.id, None, None, AttributeStatus("missing"))
        ELSE IF stored.status = "missing"
             THEN update_attribute(d, stored.id, None, None, AttributeStatus("good"))
             ELSE d

RECURSIVE evaluate_age_loop(_, _, _)
evaluate_age_loop(d, attributes, clock) ==
    IF attributes = <<>> THEN d
    ELSE evaluate_age_loop(evaluate_age_of_attribute(d, Head(attributes), clock),
                           Tail(attributes), clock)

evaluate_age_of_all_attributes_and_update_status(d, asset_id, clock) ==
    evaluate_age_loop(
        Logged(d, [fn |-> "evaluate_age_of_all_attributes_and_update_status",
                   id |-> asset_id]),
        get_asset_attributes(d, asset_id), clock)

\* a variant of line 71 that allows an asset one more day
asset_is_absent_a_day_later(asset, clock) ==
    time_since_observation(asset, clock) > max_asset_absence + 1

\* line 71: elapsed_time > datetime.timedelta(days=SETTINGS.max_asset_absence)
asset_is_absent(asset, clock) ==
    time_since_observation(asset, clock) > max_asset_absence

\* lines 72-81: the asset has not been observed for too long
update_absent_asset(d, asset) ==
    IF asset.status \notin {"unknown", "rogue"}
    THEN update_asset_status(d, asset.id, "unknown")
    ELSE d

\* a variant of line 101 that counts the attributes in missing status too
all_attribute_names(attributes) ==
    {Lower(attributes[i].name) : i \in 1..Len(attributes)}

\* line 101: the lower-cased names of the attributes in good status
good_attribute_names(attributes) ==
    {Lower(attributes[i].name) : i \in {k \in 1..Len(attributes) : attributes[k].status = "good"}}

\* line 102
has_all_of_these_security_tools(attribute_names, tools) ==
    \A i \in 1..Len(tools) : Lower(tools[i]) \in attribute_names

\* line 103
has_any_of_these_security_tools(attribute_names, tools) ==
    \E i \in 1..Len(tools) : Lower(tools[i]) \in attribute_names

\* lines 105-111
is_compliant(attribute_names, require_all, require_one) ==
    LET compliant1 ==
            ~(require_all # <<>> /\ ~has_all_of_these_security_tools(attribute_names, require_all))
    IN  /\ compliant1
        /\ ~(compliant1 /\ require_one # <<>>
               /\ ~has_any_of_these_security_tools(attribute_names, require_one))

\* a variant of lines 118-130 without the test for rogue
update_non_compliant_asset_rogue_too(d, asset) ==
    IF asset.status # "non_compliant"
    THEN update_asset_status(d, asset.id, "non_compliant")
    ELSE d

\* a variant of lines 118-130 that only takes an asset out of unknown
update_non_compliant_asset_from_unknown(d, asset) ==
    IF asset.status = "unknown"
    THEN update_asset_status(d, asset.id, "non_compliant")
    ELSE d

\* a variant of lines 118-130 that flags the asset as rogue
update_non_compliant_asset_as_rogue(d, asset) ==
    IF asset.status # "non_compliant"
    THEN update_asset_status(d, asset.id, "rogue")
    ELSE d

\* a variant of lines 118-130 that writes non_compliant again on an asset
\* that already is
update_non_compliant_asset_rewriting(d, asset) ==
    IF asset.status = "rogue" THEN d
    ELSE update_asset_status(d, asset.id, "non_compliant")

\* lines 118-130: the requirements are not met
update_non_compliant_asset(d, asset) ==
    IF asset.status = "rogue" THEN d
    ELSE IF asset.status # "non_compliant"
         THEN update_asset_status(d, asset.id, "non_compliant")
         ELSE d

\* a variant of lines 83-130 whose zero-requirements branch leaves a rogue asset
evaluate_observed_asset_keeping_rogue(d, asset, evaluate_attribute_status, clock, require_all, require_one) ==
    LET d1 == IF evaluate_attribute_status
              THEN evaluate_age_of_all_attributes_and_update_status(d, asset.id, clock)
              ELSE d
        attributes == get_asset_attributes(d1, asset.id)
    IN  IF require_all = <<>> /\ require_one = <<>>
        THEN IF asset.status = "rogue" THEN d1
             ELSE update_asset_status(d1, asset.id, "compliant")
        ELSE IF is_compliant(good_attribute_names(attributes), require_all, require_one)
             THEN update_asset_status(d1, asset.id, "compliant")
             ELSE update_non_compliant_asset(d1, asset)

\* lines 83-130: the asset was observed recently enough
evaluate_observed_asset(d, asset, evaluate_attribute_status, clock, require_all, require_one) ==
    LET d1 == IF evaluate_attribute_status
              THEN evaluate_age_of_all_attributes_and_update_status(d, asset.id, clock)
              ELSE d
        attributes == get_asset_attributes(d1, asset.id)
    IN  IF require_all = <<>> /\ require_one = <<>>
        THEN update_asset_status(d1, asset.id, "compliant")
        ELSE IF is_compliant(good_attribute_names(attributes), require_all, require_one)
             THEN update_asset_status(d1, asset.id, "compliant")
             ELSE update_non_compliant_asset(d1, asset)

evaluate_asset_attributes_and_update_status(d, asset_id, evaluate_attribute_status, clock, require_all, require_one) ==
    LET asset == AssetById(d, asset_id)
        d0 == Logged(d, [fn |-> "evaluate_asset_attributes_and_update_status",
                         id |-> asset_id, status |-> asset.status])
    IN  IF asset_is_absent(asset, clock)
        THEN update_absent_asset(d0, asset)
        ELSE evaluate_observed_asset(d0, asset, evaluate_attribute_status, clock,
                                     require_all, require_one)

RECURSIVE evaluate_status_loop(_, _, _, _, _, _)
evaluate_status_loop(d, assets, evaluate_attribute_status, clock, require_all, require_one) ==
    IF assets = <<>> THEN d
    ELSE evaluate_status_loop(
            evaluate_asset_attributes_and_update_status(
                d, Head(assets).id, evaluate_attribute_status, clock, require_all, require_one),
            Tail(assets), evaluate_attribute_status, clock, require_all, require_one)

evaluate_status_of_all_assets(d, evaluate_attribute_status, clock, require_all, require_one) ==
    evaluate_status_loop(
        Logged(d, [fn |-> "evaluate_status_of_all_assets",
                   evaluate_attribute_status |-> evaluate_attribute_status]),
        d.assets, evaluate_attribute_status, clock, require_all, require_one)

---------------------------------------------------------------------------
(* core.py: asset_data_parser, the Record Merge Engine *)

DEFAULT_DATA_FIELD_MAP ==
    [hostname |-> <<"hostname", "name", "displayName">>,
     last_observed |-> <<"last_observed", "event_time", "_time",
                         "approximateLastSignInDateTime", "last_contact_time">>,
     detail |-> <<"attribute_detail">>]

\* field_map.get(key, [])
FieldList(field_map, key) == IF key \in DOMAIN field_map THEN field_map[key] ELSE <<>>

\* a variant of line 189 that keeps a hostname that is all domain prefix
strip_domain_keeping_bare(hostname) ==
    IF /\ \E i \in 1..Len(hostname.s) : hostname.s[i] = "\\"
       /\ RFind1(hostname.s, "\\") < Len(hostname.s)
    THEN Str(SubSeq(hostname.s, RFind1(hostname.s, "\\") + 1, Len(hostname.s)))
    ELSE hostname

\* line 189: hostname[hostname.rfind("\\") + 1 :] if "\\" in hostname else hostname
strip_domain(hostname) ==
    IF \E i \in 1..Len(hostname.s) : hostname.s[i] = "\\"
    THEN Str(SubSeq(hostname.s, RFind1(hostname.s, "\\") + 1, Len(hostname.s)))
    ELSE hostname

\* lines 186-190: the loop over the hostname keys; hostname is the variable
\* as the loop finds it, and the result the variable as the loop leaves it
RECURSIVE hostname_loop(_, _, _)
hostname_loop(hostname, event, keys) ==
    IF keys = <<>> THEN hostname
    ELSE LET value == Get(event, Head(keys))
         IN  IF Truthy(value) THEN strip_domain(value)
             ELSE hostname_loop(value, event, Tail(keys))

\* lines 195-198 and 206-209: the loops over the detail keys and the time keys
RECURSIVE first_truthy_loop(_, _, _)
first_truthy_loop(variable, event, keys) ==
    IF keys = <<>> THEN variable
    ELSE LET value == Get(event, Head(keys))
         IN  IF Truthy(value) THEN value
             ELSE first_truthy_loop(value, event, Tail(keys))

\* json.dumps raises on a datetime object
Serializable(value) ==
    IF value.ty = "dict"
    THEN \A k \in DOMAIN value.items : value.items[k].ty # "datetime"
    ELSE value.ty # "datetime"

\* lines 199-204: the detail as text
serialize_detail(detail, event) ==
    LET value == IF Truthy(detail) THEN detail ELSE [ty |-> "dict", items |-> event]
    IN  IF Serializable(value) THEN [ty |-> "json", of |-> value] ELSE [ty |-> "repr", of |-> value]

\* dateutil.parser.isoparse, then dateutil.parser.parse, each failure passed over
parse_time(observed_time) ==
    LET iso == IF observed_time.ty = "timestr" /\ observed_time.fmt = "iso"
               THEN DateTime(observed_time.t, observed_time.tz)
               ELSE observed_time
    IN  IF iso.ty = "timestr" /\ iso.fmt = "text" THEN DateTime(iso.t, iso.tz) ELSE iso

\* a > b on datetimes: TypeError when one is naive and the other aware
Later(a, b) == IF a.tz # b.tz THEN "TypeError" ELSE IF a.t > b.t THEN "yes" ELSE "no"

\* lines 245-270: the attribute of the event, then the classifier
merge_attribute(d, asset_id, attribute_name, observed_time, detail, evaluate_attribute_status, clock, require_all, require_one) ==
    LET attribute == get_attribute_by_name(d, asset_id, attribute_name)
        newer == IF attribute = None THEN "yes"
                 ELSE Later(observed_time, last_observed_time(attribute))
        d1 == IF attribute = None
              THEN assign_attribute(d, asset_id, attribute_name, observed_time, detail)
              ELSE update_attribute(d, attribute.id, observed_time, detail, None)
    IN  CASE newer = "TypeError" -> [outcome |-> "TypeError", d |-> d]
          [] newer = "no" -> [outcome |-> "stale", d |-> d]
          [] OTHER ->
               [outcome |-> "merged",
                d |-> evaluate_asset_attributes_and_update_status(
                          d1, asset_id, evaluate_attribute_status, clock,
                          require_all, require_one)]

\* lines 229-270: the block under get_db_session()
merge_event(d, hostname, attribute_name, observed_time, detail, evaluate_attribute_status, clock, require_all, require_one) ==
    LET found == get_asset_by_name(d, hostname)
        created == create_asset(d, hostname, "unknown", observed_time)
        d1 == IF found = None THEN created.d ELSE d
        asset == IF found = None THEN AssetById(d1, created.id) ELSE found
        newer == IF asset.last_observed = None THEN "yes"
                 ELSE Later(observed_time, last_observed_time(asset))
        d2 == IF newer = "yes"
              THEN update_asset_observation_time(d1, asset.id, observed_time)
              ELSE d1
    IN  IF found = None /\ ~created.ok
        THEN [outcome |-> "create_failed", d |-> d]
        ELSE IF newer = "TypeError"
             THEN [outcome |-> "TypeError", d |-> d1]
             ELSE merge_attribute(d2, asset.id, attribute_name, observed_time, detail,
                                  evaluate_attribute_status, clock, require_all, require_one)

\* lines 178-270: one pass of the loop, from the frame f on the event.
\* The result: the local variables, the store and how the pass ended.
parse_event(f, d, event, clock, require_all, require_one) ==
    LET attribute_name == IF f.attribute_name = None
                          THEN Get(event, "attribute_name")
                          ELSE f.attribute_name
        hostname == hostname_loop(f.hostname, event, FieldList(f.field_map, "hostname"))
        found_detail == first_truthy_loop(f.detail, event, FieldList(f.field_map, "detail"))
        detail == serialize_detail(found_detail, event)
        found_time == first_truthy_loop(f.observed_time, event,
                                        FieldList(f.field_map, "last_observed"))
        observed_time == parse_time(found_time)
        f1 == [f EXCEPT !.attribute_name = attribute_name]
        f2 == [f1 EXCEPT !.hostname = hostname]
        f3 == [f2 EXCEPT !.detail = detail]
        f4 == [f3 EXCEPT !.observed_time = observed_time]
    IN  IF f.attribute_name = None /\ ~Truthy(attribute_name)
        THEN [f |-> f1, d |-> d, outcome |-> "no_attribute_name"]
        ELSE IF hostname = Unbound
        THEN [f |-> f1, d |-> d, outcome |-> "NameError"]
        ELSE IF ~Truthy(hostname)
        THEN [f |-> f2, d |-> d, outcome |-> "no_hostname"]
        ELSE IF found_detail = Unbound
        THEN [f |-> f2, d |-> d, outcome |-> "NameError"]
        ELSE IF found_time = Unbound
        THEN [f |-> f3, d |-> d, outcome |-> "NameError"]
        ELSE IF ~Truthy(found_time)
        THEN [f |-> [f3 EXCEPT !.observed_time = found_time], d |-> d, outcome |-> "no_time"]
        ELSE IF observed_time.ty # "datetime"
        THEN [f |-> f4, d |-> d, outcome |-> "bad_time"]
        ELSE LET m == merge_event(d, hostname.s, attribute_name.s, observed_time, detail,
                                  f.evaluate_attribute_status, clock,
                                  require_all, require_one)
             IN  [f |-> f4, d |-> m.d, outcome |-> m.outcome]

Raised(outcome) == outcome \in {"NameError", "TypeError"}

---------------------------------------------------------------------------
(* The inputs *)

StartNow == 5        \* the clock starts here
MaxNow == 8          \* and stops here
MaxBatch == 2        \* events in one call of asset_data_parser
MaxEvents == 2       \* events parsed in one behaviour

h1 == <<"h", "1">>
ok == Str(<<"o", "k">>)
a_name == Str(<<"a">>)
B_name == Str(<<"B">>)

\* {name: "web01", event_time: "2024-01-01T00:00:00", attribute_detail: "ok"}:
\* a timestamp without a UTC offset, and no attribute_name of its own
first_observation ==
    [name |-> Str(h1), event_time |-> TimeStr("iso", 1, FALSE), attribute_detail |-> ok]

\* the same host, dated earlier, with another detail
earlier_observation ==
    [name |-> Str(h1), event_time |-> TimeStr("iso", 0, FALSE),
     attribute_detail |-> Str(<<"o", "l", "d">>)]

Events ==
    { [name |-> Str(h1), event_time |-> TimeStr("iso", 1, TRUE),
       attribute_detail |-> ok, attribute_name |-> a_name],
      [hostname |-> Str(<<"D", "\\", "H", "1">>), name |-> Str(<<"h", "2">>),
       _time |-> DateTime(3, TRUE), attribute_name |-> a_name],
      [displayName |-> Str(h1), last_observed |-> TimeStr("iso", 2, FALSE),
       attribute_name |-> a_name],
      [hostname |-> Str(<<>>), name |-> Str(<<"D", "\\">>),
       event_time |-> TimeStr("iso", 3, TRUE),
       attribute_detail |-> ok, attribute_name |-> a_name],
      [name |-> Str(h1), attribute_detail |-> ok, attribute_name |-> a_name],
      [name |-> Str(h1), event_time |-> TimeStr("junk", 0, FALSE),
       attribute_detail |-> ok, attribute_name |-> a_name],
      [name |-> Str(h1), event_time |-> TimeStr("text", 3, TRUE),
       attribute_detail |-> Str(<<"n", "e", "w">>), attribute_name |-> B_name],
      [event_time |-> TimeStr("iso", 2, TRUE),
       attribute_detail |-> ok, attribute_name |-> a_name],
      first_observation, earlier_observation }

NoHostnameKeys ==
    [hostname |-> <<>>, last_observed |-> <<"event_time">>,
     detail |-> <<"attribute_detail">>]

\* a field map that takes the hostname from "name" before "hostname"
NameFirstKeys ==
    [hostname |-> <<"name", "hostname">>, last_observed |-> <<"event_time", "_time">>,
     detail |-> <<"attribute_detail">>]

\* the arguments of a call besides the data
Calls ==
    { [field_map |-> DEFAULT_DATA_FIELD_MAP, attribute_name |-> None,
       evaluate_attribute_status |-> FALSE],
      [field_map |-> DEFAULT_DATA_FIELD_MAP, attribute_name |-> None,
       evaluate_attribute_status |-> TRUE],
      [field_map |-> DEFAULT_DATA_FIELD_MAP, attribute_name |-> B_name,
       evaluate_attribute_status |-> FALSE],
      [field_map |-> NoHostnameKeys, attribute_name |-> None,
       evaluate_attribute_status |-> FALSE],
      [field_map |-> NameFirstKeys, attribute_name |-> None,
       evaluate_attribute_status |-> FALSE] }

EnvAll == {Unset, Str(<<"A", ",", "a">>)}
EnvOne == {Unset, Str(<<"b", ",", "c">>)}

Statuses == {"compliant", "non_compliant", "unknown", "rogue"}

---------------------------------------------------------------------------
(* The state machine *)

\* No call: the frame of a call that is over is gone.  events counts the
\* events parsed so far in the behaviour.
Idle ==
    [pc |-> "idle", data |-> <<>>, outcomes |-> <<>>,
     field_map |-> DEFAULT_DATA_FIELD_MAP,
     attribute_name |-> None, evaluate_attribute_status |-> FALSE,
     hostname |-> Unbound, detail |-> Unbound, observed_time |-> Unbound,
     events |-> 0, start_name |-> None,
     start |-> [assets |-> <<>>, attributes |-> <<>>]]

Store(d) == [assets |-> d.assets, attributes |-> d.attributes]

\* the processes that run asset_data_parser side by side on one store
Writers == {1, 2}

\* the frame of such a process: the frame of asset_data_parser, the rows
\* its session has loaded and the sessions it holds open
WriterIdle ==
    [pc |-> "idle", data |-> <<>>, outcomes |-> <<>>,
     field_map |-> DEFAULT_DATA_FIELD_MAP,
     attribute_name |-> None, evaluate_attribute_status |-> FALSE,
     hostname |-> Unbound, detail |-> Unbound, observed_time |-> Unbound,
     asset |-> None, attribute |-> None, sessions |-> 0]

Init ==
    /\ now = StartNow
    /\ env \in [ASSET_TRACKING_REQUIRE_ALL_ATTRIBUTES : EnvAll,
                ASSET_TRACKING_REQUIRE_ONE_ATTRIBUTE : EnvOne]
    /\ db = [assets |-> <<>>, attributes |-> <<>>, trace |-> <<>>]
    /\ parser = Idle
    /\ pre = Store(db)
    /\ writers = [w \in Writers |-> WriterIdle]

Gone == [Idle EXCEPT !.events = parser.events]

\* time passes
Tick ==
    /\ parser.pc # "loop"
    /\ now < MaxNow
    /\ now' = now + 1
    /\ db' = [db EXCEPT !.trace = <<>>]
    /\ pre' = Store(db)
    /\ parser' = Gone
    /\ UNCHANGED <<env, writers>>

\* asset_data_parser(data, field_map, attribute_name, evaluate_attribute_status):
\* the call; data is read one event at a time by ParseEvent
StartParser(field_map, attribute_name, evaluate_attribute_status) ==
    /\ parser.pc # "loop"
    /\ parser.events < MaxEvents
    /\ parser' = [Gone EXCEPT !.pc = "loop",
                              !.field_map = field_map,
                              !.attribute_name = attribute_name,
                              !.start_name = attribute_name,
                              !.evaluate_attribute_status = evaluate_attribute_status,
                              !.start = Store(db)]
    /\ db' = [db EXCEPT !.trace = <<>>]
    /\ pre' = Store(db)
    /\ UNCHANGED <<now, env, writers>>

\* one pass of the loop of asset_data_parser, on the next event of data.
\* parser.data is the data read so far, parser.outcomes how each pass ended.
ParseEvent(event) ==
    /\ parser.pc = "loop"
    /\ Len(parser.data) < MaxBatch
    /\ parser.events < MaxEvents
    /\ LET r == parse_event(parser, [db EXCEPT !.trace = <<>>], event,
                            now, require_all_attributes, require_one_attribute)
       IN  /\ db' = r.d
           /\ parser' = [r.f EXCEPT
                           !.data = Append(@, event),
                           !.outcomes = Append(@, r.outcome),
                           !.events = @ + 1,
                           !.pc = IF Raised(r.outcome) THEN "raised" ELSE "loop"]
    /\ pre' = Store(db)
    /\ UNCHANGED <<now, env, writers>>

\* data is exhausted: asset_data_parser returns
Return ==
    /\ parser.pc = "loop"
    /\ parser' = Gone
    /\ db' = [db EXCEPT !.trace = <<>>]
    /\ pre' = Store(db)
    /\ UNCHANGED <<now, env, writers>>

\* cli.py --refresh-asset-statuses: evaluate_status_of_all_assets
Sweep(evaluate_attribute_status) ==
    /\ parser.pc # "loop"
    /\ db' = evaluate_status_of_all_assets([db EXCEPT !.trace = <<>>],
                                           evaluate_attribute_status, now,
                                           require_all_attributes, require_one_attribute)
    /\ pre' = Store(db)
    /\ parser' = Gone
    /\ UNCHANGED <<now, env, writers>>

\* cli.py --update-asset-status: update_asset_status(session, asset_name, status)
UpdateAssetStatus(asset_name, status) ==
    /\ parser.pc # "loop"
    /\ get_asset_by_name(db, asset_name) # None
    /\ db' = update_asset_status([db EXCEPT !.trace = <<>>],
                                 get_asset_by_name(db, asset_name).id, status)
    /\ pre' = Store(db)
    /\ parser' = Gone
    /\ UNCHANGED <<now, env, writers>>

Next ==
    \/ Tick
    \/ \E call \in Calls :
          StartParser(call.field_map, call.attribute_name,
                      call.evaluate_attribute_status)
    \/ \E event \in Events : ParseEvent(event)
    \/ Return
    \/ \E evaluate_attribute_status \in BOOLEAN : Sweep(evaluate_attribute_status)
    \/ \E status \in Statuses : UpdateAssetStatus(h1, status)

Spec == Init /\ [][Next]_vars

---------------------------------------------------------------------------
(* The vocabulary of the properties, stated on the store and not on the    *)
(* operators above.                                                        *)

\* the calls of fn in the last operation
Calls_of(fn) == {i \in 1..Len(db.trace) : db.trace[i].fn = fn}

\* the runs of the classifier in the last operation: asset id and the status it found
ClassifierRuns ==
    {db.trace[i] : i \in Calls_of("evaluate_asset_attributes_and_update_status")}

StoredAsset(id) == CHOOSE a \in {db.assets[i] : i \in 1..Len(db.assets)} : a.id = id
StoredAttributes(id) ==
    {db.attributes[i] : i \in {k \in 1..Len(db.attributes) : db.attributes[k].asset_id = id}}

Elapsed(row) == now - row.last_observed.t
PastAssetAbsence(id) == Elapsed(StoredAsset(id)) > 6
PastAttributeAbsence(attribute) == Elapsed(attribute) > 4

SameIgnoringCase(s, t) == Lower(s) = Lower(t)
HasGood(id, tool) ==
    \E a \in StoredAttributes(id) : a.status = "good" /\ SameIgnoringCase(a.name, tool)
RequireAll == require_all_attributes
RequireOne == require_one_attribute
NoRequirements == RequireAll = <<>> /\ RequireOne = <<>>
RequirementsMet(id) ==
    /\ \A i \in 1..Len(RequireAll) : HasGood(id, RequireAll[i])
    /\ RequireOne # <<>> => \E i \in 1..Len(RequireOne) : HasGood(id, RequireOne[i])

\* the last operation was a pass of the parser's loop, on LastEvent
EventParsed == parser.pc \in {"loop", "raised"} /\ parser.data # <<>>
LastEvent == parser.data[Len(parser.data)]
LastOutcome == parser.outcomes[Len(parser.outcomes)]

\* what an event says, read off the event and the arguments of the call
HostnameValues(event) ==
    LET keys == FieldList(parser.field_map, "hostname")
    IN  [i \in 1..Len(keys) |-> Get(event, keys[i])]
NoHostname(event) ==
    LET values == HostnameValues(event)
        present == {i \in 1..Len(values) : values[i] # None /\ values[i].s # <<>>}
        first == values[CHOOSE i \in present : \A j \in present : i <= j].s
    IN  present = {} \/ first[Len(first)] = "\\"
SaidHostname(event) ==
    LET values == HostnameValues(event)
        present == {i \in 1..Len(values) : values[i] # None /\ values[i].s # <<>>}
        first == values[CHOOSE i \in present : \A j \in present : i <= j].s
        cut == {i \in 1..Len(first) : \A j \in i..Len(first) : first[j] # "\\"}
    IN  Upper(SubSeq(first, CHOOSE i \in cut : \A j \in cut : i <= j, Len(first)))
SaidName(event) ==
    IF parser.start_name # None THEN parser.start_name ELSE Get(event, "attribute_name")
TimeValues(event) ==
    LET keys == FieldList(parser.field_map, "last_observed")
    IN  {Get(event, keys[i]) : i \in 1..Len(keys)} \ {None}
HasTime(event) == \E v \in TimeValues(event) : v.ty = "datetime" \/ v.fmt # "junk"
SaidTime(event) == (CHOOSE v \in TimeValues(event) : TRUE).t
Resolvable(event) ==
    /\ ~NoHostname(event)
    /\ SaidName(event) # None /\ SaidName(event).s # <<>>
    /\ HasTime(event)

\* the stored attributes of a (hostname, attribute name) pair, in a store
PairAttributes(store, hostname, name) ==
    {store.attributes[i] : i \in
       {k \in 1..Len(store.attributes) :
          /\ store.attributes[k].name = name
          /\ \E j \in 1..Len(store.assets) :
               /\ store.assets[j].id = store.attributes[k].asset_id
               /\ store.assets[j].hostname = hostname}}

---------------------------------------------------------------------------
(* The properties *)

\* the call, handed exactly data, is over: its last pass has been made, or a
\* pass of it has raised
EndedOn(data) ==
    \/ parser.pc = "loop" /\ parser.data = data
    \/ /\ parser.pc = "raised"
       /\ Len(parser.data) <= Len(data)
       /\ \A i \in 1..Len(parser.data) : parser.data[i] = data[i]

\* the text json.dumps or str makes of the detail an event says
SaidDetail(event) ==
    LET said == Get(event, "attribute_detail")
        value == IF said # None THEN said ELSE [ty |-> "dict", items |-> event]
        plain == IF said # None THEN TRUE
                 ELSE \A k \in DOMAIN event : event[k].ty # "datetime"
    IN  [ty |-> IF plain THEN "json" ELSE "repr", of |-> value]

\* C1: newest wins, whatever the order: when a call of asset_data_parser is
\* over that was handed two events for one (hostname, attribute name) pair
\* with observed times T1 < T2, in either order, from a store holding no
\* attribute for the pair, the store holds exactly one attribute for the
\* pair, with the time and the detail of the T2 event.
C1_NewestWinsEitherOrder ==
    \A e1 \in Events, e2 \in Events :
        ( /\ parser.field_map = DEFAULT_DATA_FIELD_MAP
          /\ EndedOn(<<e1, e2>>)
          /\ Resolvable(e1) /\ Resolvable(e2)
          /\ SaidHostname(e1) = SaidHostname(e2)
          /\ SaidName(e1) = SaidName(e2)
          /\ SaidTime(e1) # SaidTime(e2)
          /\ PairAttributes(parser.start, SaidHostname(e1), SaidName(e1).s) = {} )
        => LET newest == IF SaidTime(e1) > SaidTime(e2) THEN e1 ELSE e2
               stored == PairAttributes(db, SaidHostname(e1), SaidName(e1).s)
           IN  /\ Cardinality(stored) = 1
               /\ \A a \in stored : /\ a.last_observed.t = SaidTime(newest)
                                    /\ a.detail = SaidDetail(newest)

\* C2: continue on partial failure: no pass of the loop of asset_data_parser
\* ends the loop, so that the loop reaches the last event, and every event
\* that says a hostname, an attribute name and a time is merged or found stale.
C2_LoopNeverAborts ==
    parser.field_map = DEFAULT_DATA_FIELD_MAP =>
        /\ parser.pc # "raised"
        /\ \A i \in 1..Len(parser.data) :
              Resolvable(parser.data[i]) => parser.outcomes[i] \in {"merged", "stale"}

\* C3: asset staleness overrides tooling: after the classifier has run on an
\* asset last observed more than max_asset_absence days ago, the asset is
\* rogue if it was rogue and unknown otherwise, never compliant or
\* non_compliant, whatever its attributes and the requirement lists.
C3_AbsentAssetIsUnknownOrRogue ==
    \A run \in ClassifierRuns :
        PastAssetAbsence(run.id) =>
            /\ StoredAsset(run.id).status \in {"unknown", "rogue"}
            /\ StoredAsset(run.id).status = "rogue" <=> run.status = "rogue"

C3_Witness ==
    \E run \in ClassifierRuns :
        /\ PastAssetAbsence(run.id)
        /\ run.status = "compliant"
        /\ StoredAsset(run.id).status = "unknown"
        /\ StoredAttributes(run.id) # {}

\* C4: rogue is sticky: a run of the classifier on a rogue asset leaves it
\* rogue or makes it compliant, and compliant only when the asset is within
\* the absence window and the requirements are met.
C4_RogueIsSticky ==
    \A run \in ClassifierRuns :
        run.status = "rogue" =>
            /\ StoredAsset(run.id).status \in {"rogue", "compliant"}
            /\ StoredAsset(run.id).status = "compliant" =>
                   ~PastAssetAbsence(run.id) /\ RequirementsMet(run.id)

C4_Witness ==
    \E run \in ClassifierRuns :
        /\ run.status = "rogue"
        /\ StoredAsset(run.id).status = "rogue"
        /\ ~PastAssetAbsence(run.id)
        /\ ~NoRequirements
        /\ ~RequirementsMet(run.id)

\* C5: zero requirements, trivially compliant: with both requirement lists
\* empty, a run of the classifier on an asset within the absence window
\* leaves it compliant, whatever its status and its attributes were.
C5_NoRequirementsIsCompliant ==
    \A run \in ClassifierRuns :
        NoRequirements /\ ~PastAssetAbsence(run.id) =>
            StoredAsset(run.id).status = "compliant"

C5_Witness ==
    \E run \in ClassifierRuns :
        /\ NoRequirements /\ ~PastAssetAbsence(run.id)
        /\ run.status = "rogue"
        /\ StoredAsset(run.id).status = "compliant"
        /\ \E a \in StoredAttributes(run.id) : a.status = "missing"

\* C6: the compliance rule: with requirement lists not both empty, a run of
\* the classifier on an asset within the absence window leaves it compliant
\* exactly when every name of require_all is, ignoring case, the name of an
\* attribute of the asset stored as good and, require_one not being empty,
\* some name of require_one is; an attribute stored as missing does not count.
C6_CompliantIffRequirementsMet ==
    \A run \in ClassifierRuns :
        ~NoRequirements /\ ~PastAssetAbsence(run.id) =>
            (StoredAsset(run.id).status = "compliant" <=> RequirementsMet(run.id))

C6_Witness ==
    \E run \in ClassifierRuns :
        /\ RequireAll # <<>> /\ RequireOne # <<>>
        /\ ~PastAssetAbsence(run.id)
        /\ run.status # "compliant"
        /\ StoredAsset(run.id).status = "compliant"
        /\ \E a \in StoredAttributes(run.id) : a.name # Lower(a.name)

\* C7: the non-compliant transition: with requirement lists not both empty
\* and not met, a run of the classifier on an asset within the absence window
\* whose status was unknown, compliant or non_compliant leaves it non_compliant.
C7_UnmetRequirementsIsNonCompliant ==
    \A run \in ClassifierRuns :
        ( /\ ~NoRequirements /\ ~PastAssetAbsence(run.id)
          /\ ~RequirementsMet(run.id)
          /\ run.status \in {"unknown", "compliant", "non_compliant"} )
        => StoredAsset(run.id).status = "non_compliant"

C7_Witness ==
    \E run \in ClassifierRuns :
        /\ ~NoRequirements /\ ~PastAssetAbsence(run.id)
        /\ ~RequirementsMet(run.id)
        /\ run.status = "compliant"
        /\ StoredAsset(run.id).status = "non_compliant"

\* the assets whose attributes the staleness evaluator went over in the last operation
EvaluatedAssets ==
    {db.trace[i].id : i \in Calls_of("evaluate_age_of_all_attributes_and_update_status")}

PreAttribute(id) ==
    CHOOSE a \in {pre.attributes[i] : i \in 1..Len(pre.attributes)} : a.id = id
InPre(id) == \E i \in 1..Len(pre.attributes) : pre.attributes[i].id = id

\* C8: the result of the staleness evaluator: after it has gone over the
\* attributes of an asset, each of them is stored as missing exactly when more
\* than max_attribute_absence days have passed since it was observed, and as
\* good otherwise.
C8_MissingIffPastAbsence ==
    \A id \in EvaluatedAssets : \A a \in StoredAttributes(id) :
        a.status = (IF PastAttributeAbsence(a) THEN "missing" ELSE "good")

C8_Witness ==
    \E id \in EvaluatedAssets : \E a \in StoredAttributes(id) :
        /\ InPre(a.id) /\ PreAttribute(a.id).status = "missing"
        /\ a.status = "good"
        /\ \E b \in StoredAttributes(id) : Elapsed(b) = 4

\* the last operation was a sweep: nothing was ingested
NothingIngested ==
    \A i \in 1..Len(db.trace) :
        /\ db.trace[i].fn \notin {"create_asset", "assign_attribute",
                                  "update_asset_observation_time"}
        /\ db.trace[i].fn = "update_attribute" => db.trace[i].status # None

\* C9: staleness evaluation is idempotent: once the evaluator has gone over
\* the attributes of an asset, going over them again at the same time
\* changes no attribute, and neither run changes a last_observed or a detail.
C9_EvaluationIsIdempotent ==
    \A id \in EvaluatedAssets :
        /\ evaluate_age_of_all_attributes_and_update_status(db, id, now).attributes
             = db.attributes
        /\ NothingIngested =>
             \A a \in StoredAttributes(id) :
                /\ InPre(a.id)
                /\ PreAttribute(a.id).last_observed = a.last_observed
                /\ PreAttribute(a.id).detail = a.detail

C9_Witness ==
    \E id \in EvaluatedAssets : \E a \in StoredAttributes(id) :
        /\ NothingIngested
        /\ PreAttribute(a.id).status = "good"
        /\ a.status = "missing"

AssetsNamed(hostname) ==
    {i \in 1..Len(db.assets) : Upper(db.assets[i].hostname) = Upper(hostname)}

\* C11: case-insensitive asset identity: the store holds at most one asset
\* per hostname compared without regard to case, every stored hostname is in
\* uppercase, and an event that passes every resolution step is never turned
\* away by the creation of its asset: it is merged into the one asset that
\* bears its hostname in uppercase, however the event writes it.
C11_CaseInsensitiveIdentity ==
    /\ \A i, j \in 1..Len(db.assets) :
          Upper(db.assets[i].hostname) = Upper(db.assets[j].hostname) => i = j
    /\ \A i \in 1..Len(db.assets) : db.assets[i].hostname = Upper(db.assets[i].hostname)
    /\ EventParsed => LastOutcome # "create_failed"
    /\ EventParsed /\ LastOutcome = "merged" =>
          /\ ClassifierRuns # {}
          /\ \A run \in ClassifierRuns :
                StoredAsset(run.id).hostname = SaidHostname(LastEvent)

C11_Witness ==
    /\ EventParsed /\ Len(parser.data) = 2
    /\ parser.outcomes = <<"merged", "merged">>
    /\ Get(parser.data[1], "name") = Str(<<"h", "1">>)
    /\ Get(parser.data[2], "hostname") = Str(<<"D", "\\", "H", "1">>)
    /\ Cardinality(AssetsNamed(<<"h", "1">>)) = 1
    /\ Len(db.assets) = 1

\* C12: merge-key uniqueness: after any sequence of batches and sweeps of a
\* single process the store holds at most one attribute per (asset,
\* attribute name) pair.
C12_OneAttributePerPair ==
    \A i, j \in 1..Len(db.attributes) :
        ( /\ db.attributes[i].asset_id = db.attributes[j].asset_id
          /\ db.attributes[i].name = db.attributes[j].name ) => i = j

\* the attribute writes of the merge engine in the last operation
MergeUpdates ==
    {i \in Calls_of("update_attribute") : db.trace[i].status = None}

C12_Witness ==
    /\ EventParsed /\ LastOutcome = "merged"
    /\ MergeUpdates # {}
    /\ parser.outcomes = <<"merged", "merged">>
    /\ Len(db.attributes) = 1

\* the attributes the pair of the last event had before the pass on it
PairBefore == PairAttributes(pre, SaidHostname(LastEvent), SaidName(LastEvent).s)

\* the last event says a time no later than the time stored for its pair
StaleInput ==
    /\ EventParsed
    /\ parser.field_map = DEFAULT_DATA_FIELD_MAP
    /\ Resolvable(LastEvent)
    /\ \E a \in PairBefore : SaidTime(LastEvent) <= a.last_observed.t

\* C13: stale input is a no-op: an event that resolves to an existing (asset,
\* attribute name) pair with an observed time older than or equal to the
\* stored one leaves the whole store as it was, and raises no error.
C13_StaleInputIsNoOp ==
    StaleInput =>
        /\ Store(db) = pre
        /\ LastOutcome = "stale"

\* the last operation was one of the core (an ingestion pass or a sweep), not
\* the setting of a status from outside
CoreOperation == ~(ClassifierRuns = {} /\ Calls_of("update_asset_status") # {})

WasRogue(id) ==
    \E j \in 1..Len(pre.assets) : pre.assets[j].id = id /\ pre.assets[j].status = "rogue"

\* C14: the core never assigns rogue: after an ingestion pass or a sweep,
\* an asset is rogue only if it was rogue before; an asset created by
\* ingestion has status unknown until the classifier has run on it, and then
\* unknown, compliant or non_compliant.
C14_CoreNeverAssignsRogue ==
    CoreOperation =>
        /\ \A i \in 1..Len(db.assets) :
              db.assets[i].status = "rogue" => WasRogue(db.assets[i].id)
        /\ \A i \in Calls_of("create_asset") :
              /\ StoredAsset(db.trace[i].id).status \in {"unknown", "compliant", "non_compliant"}
              /\ ClassifierRuns = {} => StoredAsset(db.trace[i].id).status = "unknown"

C14_Witness ==
    /\ Len(db.assets) = 2
    /\ \E run \in ClassifierRuns : run.status = "rogue" /\ StoredAsset(run.id).status = "rogue"
    /\ \E run \in ClassifierRuns :
          run.status = "compliant" /\ StoredAsset(run.id).status = "non_compliant"

\* a call with the batch source B on an empty store, handed first_observation
\* and then, if anything, earlier_observation, the first of them dated more
\* than max_asset_absence days ago
FirstObservationScenario ==
    /\ parser.pc \in {"loop", "raised"}
    /\ parser.field_map = DEFAULT_DATA_FIELD_MAP
    /\ parser.start_name = B_name
    /\ parser.start = [assets |-> <<>>, attributes |-> <<>>]
    /\ parser.data \in {<<first_observation>>, <<first_observation, earlier_observation>>}
    /\ now - SaidTime(first_observation) > 6

\* C15: the first-observation scenario: from an empty store, the event
\* {name, event_time without offset, attribute_detail} of source B leaves
\* exactly one asset, H1, with status unknown, owning exactly one attribute,
\* named B, with status good; an event of the same host and source dated
\* earlier leaves the attribute's detail and last_observed as they were.
C15_FirstObservation ==
    FirstObservationScenario =>
        /\ Len(db.assets) = 1
        /\ db.assets[1].hostname = <<"H", "1">>
        /\ db.assets[1].status = "unknown"
        /\ Len(db.attributes) = 1
        /\ db.attributes[1].asset_id = db.assets[1].id
        /\ db.attributes[1].name = B_name.s
        /\ db.attributes[1].status = "good"
        /\ db.attributes[1].last_observed.t = SaidTime(first_observation)
        /\ db.attributes[1].detail = SaidDetail(first_observation)

AssetBefore(hostname) ==
    {pre.assets[i] : i \in {k \in 1..Len(pre.assets) : pre.assets[k].hostname = hostname}}
AssetAfter(hostname) ==
    {db.assets[i] : i \in {k \in 1..Len(db.assets) : db.assets[k].hostname = hostname}}

\* C16: the asset's observation time is the running maximum: after the pass
\* on an event that says a hostname, an attribute name and a time, the asset
\* of that hostname is stored with the later of the time it had and the
\* time of the event; and no pass lowers the time of an asset.
C16_AssetTimeIsRunningMaximum ==
    /\ EventParsed /\ Resolvable(LastEvent) =>
          /\ AssetAfter(SaidHostname(LastEvent)) # {}
          /\ \A asset \in AssetAfter(SaidHostname(LastEvent)) :
                /\ asset.last_observed.t >= SaidTime(LastEvent)
                /\ \/ asset.last_observed.t = SaidTime(LastEvent)
                   \/ \E old \in AssetBefore(SaidHostname(LastEvent)) :
                         asset.last_observed.t = old.last_observed.t
    /\ \A i \in 1..Len(pre.assets) : \A j \in 1..Len(db.assets) :
          pre.assets[i].id = db.assets[j].id =>
              db.assets[j].last_observed.t >= pre.assets[i].last_observed.t

\* the records the merge engine created or updated in the last operation
IngestWrites ==
    Calls_of("create_asset") \cup Calls_of("update_asset_observation_time")
        \cup Calls_of("assign_attribute") \cup MergeUpdates

AffectedAsset(i) ==
    IF db.trace[i].fn \in {"create_asset", "update_asset_observation_time"}
    THEN db.trace[i].id
    ELSE db.attributes[AttributeIndex(db, db.trace[i].id)].asset_id

\* C17: re-evaluation follows every change: a pass of asset_data_parser that
\* creates an asset, updates an asset's last_observed, creates an attribute
\* or updates an attribute runs the classifier once, after the change and
\* before the next event, on the asset concerned.
C17_ClassifierFollowsEveryChange ==
    EventParsed =>
        \A i \in IngestWrites :
            /\ Cardinality(Calls_of("evaluate_asset_attributes_and_update_status")) = 1
            /\ \A k \in Calls_of("evaluate_asset_attributes_and_update_status") :
                  k > i /\ db.trace[k].id = AffectedAsset(i)

\* the last operation was evaluate_status_of_all_assets with evaluate_attribute_status=True
SweptWithAttributes ==
    \E i \in Calls_of("evaluate_status_of_all_assets") : db.trace[i].evaluate_attribute_status

RunsOn(id) ==
    {i \in Calls_of("evaluate_asset_attributes_and_update_status") : db.trace[i].id = id}

\* C18: sweep completeness: after evaluate_status_of_all_assets with
\* evaluate_attribute_status=True the classifier has run once on every stored
\* asset, and every stored attribute observed more than max_attribute_absence
\* days ago is stored as missing, those of assets past max_asset_absence
\* included.
C18_SweepCompleteness ==
    SweptWithAttributes =>
        /\ \A i \in 1..Len(db.assets) : Cardinality(RunsOn(db.assets[i].id)) = 1
        /\ \A i \in 1..Len(db.attributes) :
              PastAttributeAbsence(db.attributes[i]) => db.attributes[i].status = "missing"

\* the attributes the merge engine created or updated in the last operation
MergedAttributes ==
    {db.attributes[AttributeIndex(db, db.trace[i].id)] :
        i \in Calls_of("assign_attribute") \cup MergeUpdates}

\* C19: per-event attribute name: in a call without a batch-level
\* attribute_name, an event whose "attribute_name" is absent or empty is
\* skipped, and an event that is merged is merged under its own
\* "attribute_name", never under the name of an earlier event of the batch.
C19_PerEventAttributeName ==
    EventParsed /\ parser.start_name = None =>
        /\ ~Truthy(Get(LastEvent, "attribute_name")) =>
              LastOutcome = "no_attribute_name" /\ Store(db) = pre
        /\ \A a \in MergedAttributes : Str(a.name) = Get(LastEvent, "attribute_name")

\* C20: field resolution is per event: whatever the field map, a pass that
\* has an attribute name resolves hostname, observed time and detail from
\* its own event alone: a field the event does not hold is found missing
\* (the event is skipped for want of a hostname or of a time, the detail
\* defaults to the event), never an unbound or left-over variable.
C20_ResolutionIsPerEvent ==
    EventParsed /\ LastOutcome # "no_attribute_name" =>
        /\ LastOutcome # "NameError"
        /\ NoHostname(LastEvent) <=> LastOutcome = "no_hostname"
        /\ ~NoHostname(LastEvent) =>
              /\ Upper(parser.hostname.s) = SaidHostname(LastEvent)
              /\ parser.detail = SaidDetail(LastEvent)
              /\ ~HasTime(LastEvent) <=> LastOutcome \in {"no_time", "bad_time"}
              /\ HasTime(LastEvent) => parser.observed_time.t = SaidTime(LastEvent)

\* the text an event gives for the hostname: the first non-empty value among
\* the hostname fields of the call, in their order, after its last backslash
ResolvedHostname(event) ==
    LET values == HostnameValues(event)
        present == {i \in 1..Len(values) : values[i] # None /\ values[i].s # <<>>}
        first == values[CHOOSE i \in present : \A j \in present : i <= j].s
        cut == {i \in 1..Len(first) + 1 : \A j \in i..Len(first) : first[j] # "\\"}
    IN  Str(SubSeq(first, CHOOSE i \in cut : \A j \in cut : i <= j, Len(first)))

\* the pass on the last event got as far as the hostname
ReachedHostname == EventParsed /\ LastOutcome # "no_attribute_name"

\* C21: hostname resolution: in a pass of asset_data_parser that gets as far
\* as the hostname, the hostname of the event is the value of the first field,
\* in the order of the field map's hostname list, that holds a non-empty
\* value, cut down to what follows its last backslash; and when no field
\* yields a value the event is skipped, the loop going on to the next event.
C21_HostnameResolution ==
    ReachedHostname =>
        IF NoHostname(LastEvent)
        THEN LastOutcome = "no_hostname"
        ELSE parser.hostname = ResolvedHostname(LastEvent)

\* the status writes of the last operation on an asset
StatusWrites(id) == {i \in Calls_of("update_asset_status") : db.trace[i].id = id}

\* a run of the classifier in the last operation whose result is the status
\* it found on the asset
SameStatusRuns == {r \in ClassifierRuns : StoredAsset(r.id).status = r.status}

\* C26, as the spec states it: a run of
\* evaluate_asset_attributes_and_update_status whose computed status equals
\* the asset's current status calls update_asset_status not at all, whatever
\* the current status, compliant included.
C26_NoWriteWithoutChange ==
    \A r \in SameStatusRuns : StatusWrites(r.id) = {}

\* C26, amended: a run of the classifier whose computed status equals the
\* asset's current status makes no status write when that status is unknown,
\* rogue or non_compliant; a run that computes compliant calls
\* update_asset_status once with compliant, on an asset already compliant too.
C26_NoWriteUnlessCompliant ==
    \A r \in ClassifierRuns :
        /\ r \in SameStatusRuns /\ r.status # "compliant" => StatusWrites(r.id) = {}
        /\ StoredAsset(r.id).status = "compliant" =>
              /\ Cardinality(StatusWrites(r.id)) = 1
              /\ \A i \in StatusWrites(r.id) : db.trace[i].status = "compliant"

C26_Witness ==
    /\ \E r \in SameStatusRuns : r.status = "non_compliant"
    /\ \E r \in SameStatusRuns : r.status = "compliant"

\* the last operation was evaluate_status_of_all_assets
Swept == Calls_of("evaluate_status_of_all_assets") # {}

\* a row without its status
Unflagged(row) == [k \in DOMAIN row \ {"status"} |-> row[k]]

\* C27: the sweep only flips statuses: evaluate_status_of_all_assets, with or
\* without the evaluation of the attributes' age, leaves the store with the
\* same assets and the same attributes, each with the id, hostname, name,
\* owner, last_observed and detail it had: only the status of an asset or of
\* an attribute may differ from what it was before the sweep.
C27_SweepOnlyFlipsStatuses ==
    Swept =>
        /\ Len(db.assets) = Len(pre.assets)
        /\ Len(db.attributes) = Len(pre.attributes)
        /\ \A i \in 1..Len(db.assets) : Unflagged(db.assets[i]) = Unflagged(pre.assets[i])
        /\ \A i \in 1..Len(db.attributes) :
              Unflagged(db.attributes[i]) = Unflagged(pre.attributes[i])

\* sweeps that flip the status of an asset, and of an attribute
C27_Witness ==
    /\ SweptWithAttributes
    /\ \E i \in 1..Len(db.assets) : db.assets[i].status # pre.assets[i].status
    /\ \E i \in 1..Len(db.attributes) : db.attributes[i].status # pre.attributes[i].status

UpdatedAttributes ==
    {db.attributes[AttributeIndex(db, db.trace[i].id)] : i \in MergeUpdates}

\* C30: a fresh observation makes the attribute count: when a pass of
\* asset_data_parser, called with evaluate_attribute_status=False, updates an
\* attribute that was stored as missing with a newer observation no older
\* than max_attribute_absence days, the attribute is stored as good when the
\* classifier runs in that pass.
C30_FreshObservationCounts ==
    EventParsed /\ LastOutcome = "merged" /\ ~parser.evaluate_attribute_status =>
        \A a \in UpdatedAttributes :
            PreAttribute(a.id).status = "missing" /\ ~PastAttributeAbsence(a) =>
                a.status = "good"

---------------------------------------------------------------------------
(* The requirement lists as configured: the environment is set to lists of *)
(* names, and the two properties of Settings are read back.                *)

MaxNames == 2
ToolNames == {<<"a">>, <<"B", "2">>, <<"c">>}
NameLists == UNION {[1..n -> ToolNames] : n \in 0..MaxNames}

\* the text that configures a list of names: the names with commas between
RECURSIVE Joined(_)
Joined(names) ==
    IF Len(names) = 1 THEN names[1]
    ELSE names[1] \o <<",">> \o Joined(Tail(names))

\* the value of the variable: unset when no name is configured
Environ(names) == IF names = <<>> THEN Unset ELSE Str(Joined(names))

\* the operator sets one of the two variables to a list of names
SetEnviron(variable, names) ==
    /\ env' = [env EXCEPT ![variable] = Environ(names)]
    /\ UNCHANGED <<now, db, parser, pre, writers>>

SettingsInit ==
    /\ Init
    /\ env = [ASSET_TRACKING_REQUIRE_ALL_ATTRIBUTES |-> Unset,
              ASSET_TRACKING_REQUIRE_ONE_ATTRIBUTE |-> Unset]

SettingsNext ==
    \E variable \in DOMAIN env, names \in NameLists : SetEnviron(variable, names)

Settings == SettingsInit /\ [][SettingsNext]_vars

\* the names a value of the environment lists, read off the text between
\* its commas
ConfiguredNames(value) ==
    LET s == IF value = Unset THEN <<>> ELSE value.s
        commas == {i \in 1..Len(s) : s[i] = ","}
        starts == {0} \cup commas
        ends == commas \cup {Len(s) + 1}
        nth(S, k) == CHOOSE x \in S : Cardinality({y \in S : y < x}) = k - 1
    IN  IF value = Unset THEN <<>>
        ELSE [k \in 1..Cardinality(ends) |->
                SubSeq(s, nth(starts, k) + 1, nth(ends, k) - 1)]

\* C28: the requirement lists from the configuration: require_all_attributes
\* and require_one_attribute each return, in order, exactly the names their
\* variable is configured with, a single name giving a list of one element,
\* and the empty list when the variable is not set.
C28_RequirementLists ==
    /\ require_all_attributes = ConfiguredNames(env.ASSET_TRACKING_REQUIRE_ALL_ATTRIBUTES)
    /\ require_one_attribute = ConfiguredNames(env.ASSET_TRACKING_REQUIRE_ONE_ATTRIBUTE)

---------------------------------------------------------------------------
(* Two processes ingest side by side.  Each runs asset_data_parser with    *)
(* its default arguments; a process takes a step at each statement of the  *)
(* block under get_db_session() that reads or writes the store, and the    *)
(* steps of the two interleave.  The session keeps the rows it has loaded: *)
(* asset and attribute are what the process read, not what is stored now.  *)
(* The classifier at the end of the block is taken as one step.            *)

\* lines 178-227: the part of a pass before the session is opened, from the
\* frame f on the event; "resolved" when the pass goes on to the block
resolve_event(f, event) ==
    LET attribute_name == IF f.attribute_name = None
                          THEN Get(event, "attribute_name")
                          ELSE f.attribute_name
        hostname == hostname_loop(f.hostname, event, FieldList(f.field_map, "hostname"))
        found_detail == first_truthy_loop(f.detail, event, FieldList(f.field_map, "detail"))
        detail == serialize_detail(found_detail, event)
        found_time == first_truthy_loop(f.observed_time, event,
                                        FieldList(f.field_map, "last_observed"))
        observed_time == parse_time(found_time)
        f1 == [f EXCEPT !.attribute_name = attribute_name]
        f2 == [f1 EXCEPT !.hostname = hostname]
        f3 == [f2 EXCEPT !.detail = detail]
        f4 == [f3 EXCEPT !.observed_time = observed_time]
    IN  IF f.attribute_name = None /\ ~Truthy(attribute_name)
        THEN [f |-> f1, outcome |-> "no_attribute_name"]
        ELSE IF hostname = Unbound
        THEN [f |-> f1, outcome |-> "NameError"]
        ELSE IF ~Truthy(hostname)
        THEN [f |-> f2, outcome |-> "no_hostname"]
        ELSE IF found_detail = Unbound
        THEN [f |-> f2, outcome |-> "NameError"]
        ELSE IF found_time = Unbound
        THEN [f |-> f3, outcome |-> "NameError"]
        ELSE IF ~Truthy(found_time)
        THEN [f |-> [f3 EXCEPT !.observed_time = found_time], outcome |-> "no_time"]
        ELSE IF observed_time.ty # "datetime"
        THEN [f |-> f4, outcome |-> "bad_time"]
        ELSE [f |-> f4, outcome |-> "resolved"]

\* a pass that ends before the block: the loop goes on, or the call is over
end_pass(f, outcome) ==
    [f EXCEPT !.outcomes = Append(@, outcome),
              !.pc = IF Raised(outcome) THEN "raised" ELSE "loop"]

\* operations.py lines 36-38: db = Session(); yield db
enter_db_session(f) == [f EXCEPT !.sessions = @ + 1, !.pc = "get_asset"]

\* a variant of get_db_session that closes the session only when the block
\* is left without an exception (no try / finally)
leave_db_session_unless_raised(f, outcome) ==
    end_pass([f EXCEPT !.sessions = IF Raised(outcome) THEN @ ELSE @ - 1,
                       !.asset = None, !.attribute = None], outcome)

\* operations.py lines 39-40: finally: db.close(), however the block is left:
\* at its end, by a continue or by an exception.  The rows the session had
\* loaded are not read again.
leave_db_session(f, outcome) ==
    end_pass([f EXCEPT !.sessions = @ - 1, !.asset = None, !.attribute = None], outcome)

\* an observation of h1 and a that falls between those of Events (days 1 and 3)
middle_observation ==
    [name |-> Str(h1), event_time |-> TimeStr("iso", 2, TRUE),
     attribute_detail |-> Str(<<"m", "i", "d">>), attribute_name |-> a_name]

\* the events the two processes are handed: the observations of attribute a
\* in Events that a call with the default arguments takes as far as the
\* block, and the one between
WriterEvents ==
    {event \in Events : /\ resolve_event(WriterIdle, event).outcome = "resolved"
                        /\ Get(event, "attribute_name") = a_name}
        \cup {middle_observation}

\* a process calls asset_data_parser(data)
WriterCall(p) ==
    /\ writers[p].pc = "idle"
    /\ writers' = [writers EXCEPT ![p].pc = "loop"]
    /\ db' = [db EXCEPT !.trace = <<>>]
    /\ pre' = Store(db)
    /\ UNCHANGED <<now, env, parser>>

\* lines 178-229: the next event of data, up to the opening of the session
WriterResolve(p, event) ==
    /\ writers[p].pc = "loop"
    /\ Len(writers[p].data) < MaxBatch
    /\ LET r == resolve_event([writers[p] EXCEPT !.data = Append(@, event)], event)
       IN  writers' = [writers EXCEPT ![p] = IF r.outcome = "resolved"
                                             THEN enter_db_session(r.f)
                                             ELSE end_pass(r.f, r.outcome)]
    /\ db' = [db EXCEPT !.trace = <<>>]
    /\ pre' = Store(db)
    /\ UNCHANGED <<now, env, parser>>

\* line 231: asset = get_asset_by_name(session, hostname)
WriterGetAsset(p) ==
    /\ writers[p].pc = "get_asset"
    /\ LET asset == get_asset_by_name(db, writers[p].hostname.s)
       IN  writers' = [writers EXCEPT ![p].asset = asset,
                                      ![p].pc = IF asset = None THEN "create_asset"
                                                ELSE "asset_time"]
    /\ db' = [db EXCEPT !.trace = <<>>]
    /\ pre' = Store(db)
    /\ UNCHANGED <<now, env, parser>>

\* lines 235-239: asset = create_asset(session, hostname, last_observed=observed_time),
\* and the continue when it returns False
WriterCreateAsset(p) ==
    /\ writers[p].pc = "create_asset"
    /\ LET created == create_asset([db EXCEPT !.trace = <<>>], writers[p].hostname.s,
                                   "unknown", writers[p].observed_time)
       IN  /\ db' = created.d
           /\ writers' = [writers EXCEPT ![p] =
                 IF created.ok
                 THEN [@ EXCEPT !.asset = AssetById(created.d, created.id),
                                !.pc = "asset_time"]
                 ELSE leave_db_session(@, "create_failed")]
    /\ pre' = Store(db)
    /\ UNCHANGED <<now, env, parser>>

\* lines 241-243: the observation time of the asset, compared with the time
\* the session has loaded
WriterAssetTime(p) ==
    /\ writers[p].pc = "asset_time"
    /\ LET f == writers[p]
           newer == IF f.asset.last_observed = None THEN "yes"
                    ELSE Later(f.observed_time, last_observed_time(f.asset))
       IN  /\ db' = IF newer = "yes"
                    THEN update_asset_observation_time([db EXCEPT !.trace = <<>>],
                                                       f.asset.id, f.observed_time)
                    ELSE [db EXCEPT !.trace = <<>>]
           /\ writers' = [writers EXCEPT ![p] =
                 IF newer = "TypeError" THEN leave_db_session(@, "TypeError")
                 ELSE [@ EXCEPT !.pc = "get_attribute"]]
    /\ pre' = Store(db)
    /\ UNCHANGED <<now, env, parser>>

\* line 246: attribute = get_attribute_by_name(session, asset, attribute_name)
WriterGetAttribute(p) ==
    /\ writers[p].pc = "get_attribute"
    /\ writers' = [writers EXCEPT
                     ![p].attribute = get_attribute_by_name(db, writers[p].asset.id,
                                                            writers[p].attribute_name.s),
                     ![p].pc = "attribute"]
    /\ db' = [db EXCEPT !.trace = <<>>]
    /\ pre' = Store(db)
    /\ UNCHANGED <<now, env, parser>>

\* lines 247-265: the attribute the session has loaded is updated when the
\* event is newer; when none was found one is assigned
WriterAttribute(p) ==
    /\ writers[p].pc = "attribute"
    /\ LET f == writers[p]
           d == [db EXCEPT !.trace = <<>>]
           newer == IF f.attribute = None THEN "yes"
                    ELSE Later(f.observed_time, last_observed_time(f.attribute))
       IN  /\ db' = IF newer # "yes" THEN d
                    ELSE IF f.attribute = None
                    THEN assign_attribute(d, f.asset.id, f.attribute_name.s,
                                          f.observed_time, f.detail)
                    ELSE update_attribute(d, f.attribute.id, f.observed_time, f.detail, None)
           /\ writers' = [writers EXCEPT ![p] =
                 CASE newer = "TypeError" -> leave_db_session(@, "TypeError")
                   [] newer = "no" -> leave_db_session(@, "stale")
                   [] OTHER -> [@ EXCEPT !.pc = "classify"]]
    /\ pre' = Store(db)
    /\ UNCHANGED <<now, env, parser>>

\* lines 268-270: the classifier, and the end of the block
WriterClassify(p) ==
    /\ writers[p].pc = "classify"
    /\ db' = evaluate_asset_attributes_and_update_status(
                [db EXCEPT !.trace = <<>>], writers[p].asset.id,
                writers[p].evaluate_attribute_status, now,
                require_all_attributes, require_one_attribute)
    /\ writers' = [writers EXCEPT ![p] = leave_db_session(@, "merged")]
    /\ pre' = Store(db)
    /\ UNCHANGED <<now, env, parser>>

\* data is exhausted: the call returns
WriterReturn(p) ==
    /\ writers[p].pc = "loop"
    /\ writers' = [writers EXCEPT ![p].pc = "returned"]
    /\ db' = [db EXCEPT !.trace = <<>>]
    /\ pre' = Store(db)
    /\ UNCHANGED <<now, env, parser>>

WritersNext ==
    \/ \E p \in Writers : WriterCall(p)
    \/ \E p \in Writers, event \in WriterEvents : WriterResolve(p, event)
    \/ \E p \in Writers : WriterGetAsset(p)
    \/ \E p \in Writers : WriterCreateAsset(p)
    \/ \E p \in Writers : WriterAssetTime(p)
    \/ \E p \in Writers : WriterGetAttribute(p)
    \/ \E p \in Writers : WriterAttribute(p)
    \/ \E p \in Writers : WriterClassify(p)
    \/ \E p \in Writers : WriterReturn(p)

\* an empty store, and a deployment that requires attribute a
WritersInit ==
    /\ Init
    /\ env = [ASSET_TRACKING_REQUIRE_ALL_ATTRIBUTES |-> Str(<<"A", ",", "a">>),
              ASSET_TRACKING_REQUIRE_ONE_ATTRIBUTE |-> Unset]

TwoWriters == WritersInit /\ [][WritersNext]_vars

\* the process is inside the block under get_db_session()
InBlock(p) ==
    writers[p].pc \in {"get_asset", "create_asset", "asset_time",
                       "get_attribute", "attribute", "classify"}

\* how the passes of a process have ended so far
Outcomes(p) == {writers[p].outcomes[i] : i \in 1..Len(writers[p].outcomes)}

\* C22: no handle leaks: a process that runs asset_data_parser holds one open
\* session while it is inside the block of an event and none at any other
\* time: the session of an event is closed when the next event is taken up
\* and when the call returns or raises, whether the block was left at its
\* end, by a continue (the asset could not be created, the input was stale)
\* or by an exception.  It never holds more than one.
C22_NoHandleLeaks ==
    \A p \in Writers :
        /\ writers[p].sessions <= 1
        /\ writers[p].sessions = IF InBlock(p) THEN 1 ELSE 0

\* the block has been left in each way: at its end and by an exception in
\* one process, by the two kinds of continue in the other
C22_Witness ==
    \E p, q \in Writers :
        /\ writers[p].pc = "raised" /\ Outcomes(p) = {"merged", "TypeError"}
        /\ writers[q].pc = "returned" /\ Outcomes(q) = {"create_failed", "stale"}

\* C23: the duplicate-hostname creation race: when two processes ingest
\* events for the same hostname that the store does not hold yet, then
\* however their steps interleave the store holds one asset of that hostname
\* and never two; the create_asset that comes second fails without raising,
\* and the process that made it goes on with its loop.
C23_DuplicateHostnameRace ==
    /\ \A i, j \in 1..Len(db.assets) :
          db.assets[i].hostname = db.assets[j].hostname => i = j
    /\ \A p \in Writers : \A k \in 1..Len(writers[p].outcomes) :
          writers[p].outcomes[k] = "create_failed" =>
              /\ Cardinality(AssetsNamed(SaidHostname(writers[p].data[k]))) = 1
              /\ k = Len(writers[p].outcomes) => writers[p].pc # "raised"

\* a process lost the race and has merged its next event
C23_Witness ==
    \E p \in Writers :
        /\ writers[p].outcomes = <<"create_failed", "merged">>
        /\ Len(db.assets) = 1

\* C24: no silent corruption under two writers: when two processes ingest
\* events for the same (hostname, attribute name) pair, then however their
\* lookups and creations interleave the store never holds two attributes for
\* the pair.
C24_NoDuplicateAttribute ==
    \A i \in 1..Len(db.assets) : \A k \in 1..Len(db.attributes) :
        Cardinality(PairAttributes(Store(db), db.assets[i].hostname,
                                   db.attributes[k].name)) <= 1

---------------------------------------------------------------------------
(* Ingestion and sweeps together with the two deletions of cli.py, at a   *)
(* clock that stands still.                                                *)

\* cli.py --delete-asset: the asset is looked up by name; delete_asset
\* returns at once when there is none
DeleteAsset(asset_name) ==
    /\ parser.pc # "loop"
    /\ LET asset == get_asset_by_name(db, asset_name)
       IN  db' = IF asset = None THEN [db EXCEPT !.trace = <<>>]
                 ELSE delete_asset([db EXCEPT !.trace = <<>>], asset.id)
    /\ pre' = Store(db)
    /\ parser' = Gone
    /\ UNCHANGED <<now, env, writers>>

\* cli.py attribute --delete-attribute, without a time or a detail: the
\* lookup raises on an unknown asset, and nothing is written when the asset
\* has no attribute of that name
DeleteAttribute(asset_name, attribute_name) ==
    /\ parser.pc # "loop"
    /\ LET asset == get_asset_by_name(db, asset_name)
           attribute == IF asset = None THEN None
                        ELSE get_attribute_by_name(db, asset.id, attribute_name)
       IN  db' = IF attribute = None THEN [db EXCEPT !.trace = <<>>]
                 ELSE remove_attribute([db EXCEPT !.trace = <<>>], attribute.id)
    /\ pre' = Store(db)
    /\ parser' = Gone
    /\ UNCHANGED <<now, env, writers>>

\* the names the deletions are called with
AssetNames == {h1, <<"H", "2">>}
AttributeNames == {a_name.s, B_name.s}

MaintenanceNext ==
    \/ \E call \in Calls :
          StartParser(call.field_map, call.attribute_name,
                      call.evaluate_attribute_status)
    \/ \E event \in Events : ParseEvent(event)
    \/ Return
    \/ \E evaluate_attribute_status \in BOOLEAN : Sweep(evaluate_attribute_status)
    \/ \E asset_name \in AssetNames : DeleteAsset(asset_name)
    \/ \E asset_name \in AssetNames, attribute_name \in AttributeNames :
          DeleteAttribute(asset_name, attribute_name)

Maintenance == Init /\ [][MaintenanceNext]_vars

\* the assets deleted by the last operation
DeletedAssets == {db.trace[i].id : i \in Calls_of("delete_asset")}

\* C25: referential integrity: after any sequence of ingestion batches,
\* sweeps, delete_asset and remove_attribute calls, the asset_id of every
\* stored attribute is the id of a stored asset; and delete_asset removes the
\* asset and all of its attributes, every other asset and attribute staying
\* as it was.
C25_ReferentialIntegrity ==
    /\ \A k \in 1..Len(db.attributes) :
          \E i \in 1..Len(db.assets) : db.assets[i].id = db.attributes[k].asset_id
    /\ \A id \in DeletedAssets :
          /\ db.assets = SelectSeq(pre.assets, LAMBDA a : a.id # id)
          /\ db.attributes = SelectSeq(pre.attributes, LAMBDA a : a.asset_id # id)

\* an asset was deleted with an attribute of its own, and another asset
\* with its attribute is still there
C25_Witness ==
    \E id \in DeletedAssets :
        /\ \E k \in 1..Len(pre.attributes) : pre.attributes[k].asset_id = id
        /\ db.attributes # <<>>
        /\ Len(db.assets) = Len(pre.assets) - 1

\* the events the processes have merged for a hostname and an attribute name
MergedFor(hostname, name) ==
    UNION {{writers[p].data[i] : i \in {k \in 1..Len(writers[p].outcomes) :
                /\ writers[p].outcomes[k] = "merged"
                /\ SaidHostname(writers[p].data[k]) = hostname
                /\ Get(writers[p].data[k], "attribute_name") = Str(name)}} : p \in Writers}

\* the hostname of the asset that owns a stored attribute
OwnerHostname(attribute) == StoredAsset(attribute.asset_id).hostname

\* C31: newest wins under two writers: when two processes ingest events
\* with different observed times for the same stored (hostname, attribute
\* name) pair, then however their reads, comparisons and writes interleave,
\* no write replaces the stored time of an attribute by an earlier one, and
\* once both processes are out of the block the one attribute of the pair
\* holds the time and the detail of the latest event merged for the pair.
C31_NewestWinsUnderTwoWriters ==
    /\ \A k \in 1..Len(db.attributes) :
          InPre(db.attributes[k].id) =>
              db.attributes[k].last_observed.t
                  >= PreAttribute(db.attributes[k].id).last_observed.t
    /\ (\A p \in Writers : ~InBlock(p)) =>
          \A k \in 1..Len(db.attributes) :
              LET a == db.attributes[k]
                  merged == MergedFor(OwnerHostname(a), a.name)
              IN  Cardinality(PairAttributes(Store(db), OwnerHostname(a), a.name)) = 1 =>
                  \A event \in merged :
                      /\ a.last_observed.t >= SaidTime(event)
                      /\ a.last_observed.t = SaidTime(event) => a.detail = SaidDetail(event)

---------------------------------------------------------------------------
(* utils.py: export_database_to_json_report.  A dict is the sequence of    *)
(* its items, each key once; the report is logged with the call.  The      *)
(* column insert_date is not among the columns of the store above: its     *)
(* item is there, its value is not told.                                   *)

\* d[key] = value
DictSet(dict, key, value) ==
    IF \E i \in 1..Len(dict) : dict[i].key = key
    THEN [i \in 1..Len(dict) |-> IF dict[i].key = key
                                 THEN [key |-> key, value |-> value] ELSE dict[i]]
    ELSE Append(dict, [key |-> key, value |-> value])

\* datetime.isoformat() and datetime.strftime("%Y-%m-%d %H:%M:%S")
IsoFormat(dt) == IF dt = None THEN None ELSE [ty |-> "isoformat", t |-> dt.t, tz |-> dt.tz]
StrfTime(dt) == IF dt = None THEN None ELSE [ty |-> "strftime", t |-> dt.t]

\* schema.py: Asset.to_dict
to_dict(asset) ==
    << [key |-> <<"i", "d">>, value |-> [ty |-> "int", v |-> asset.id]],
       [key |-> <<"h", "o", "s", "t", "n", "a", "m", "e">>, value |-> Str(asset.hostname)],
       [key |-> <<"s", "t", "a", "t", "u", "s">>, value |-> [ty |-> "enum", value |-> asset.status]],
       [key |-> <<"i", "n", "s", "e", "r", "t", "_", "d", "a", "t", "e">>,
        value |-> [ty |-> "isoformat", of |-> "insert_date"]],
       [key |-> <<"l", "a", "s", "t", "_", "o", "b", "s", "e", "r", "v", "e", "d">>,
        value |-> IsoFormat(last_observed_time(asset))] >>

\* lines 36-41: asset_data[attribute.name] = the time of the attribute
RECURSIVE attribute_columns(_, _)
attribute_columns(asset_data, attributes) ==
    IF attributes = <<>> THEN asset_data
    ELSE attribute_columns(
            DictSet(asset_data, Head(attributes).name, StrfTime(Head(attributes).last_observed)),
            Tail(attributes))

\* a variant of line 32 that looks at the first character of the hostname
is_machine_account_by_prefix(hostname) == hostname # <<>> /\ hostname[1] = "$"

\* line 32: asset.hostname.endswith("$")
is_machine_account(hostname) == hostname # <<>> /\ hostname[Len(hostname)] = "$"

\* lines 31-42: the loop over the assets loaded at its start
RECURSIVE export_loop(_, _, _)
export_loop(d, assets, data) ==
    IF assets = <<>> THEN [d |-> d, data |-> data]
    ELSE LET asset == AssetById(d, Head(assets).id)
         IN  IF is_machine_account(asset.hostname)
             THEN export_loop(delete_asset(d, asset.id), Tail(assets), data)
             ELSE export_loop(d, Tail(assets),
                              Append(data, attribute_columns(
                                               to_dict(asset),
                                               get_asset_attributes(d, asset.id))))

\* the store after the call, the written report logged with it
export_database_to_json_report(d) ==
    LET r == export_loop(d, d.assets, <<>>)
    IN  Logged(r.d, [fn |-> "export_database_to_json_report", data |-> r.data])

\* cli.py --export-database
Export ==
    /\ parser.pc # "loop"
    /\ db' = export_database_to_json_report([db EXCEPT !.trace = <<>>])
    /\ pre' = Store(db)
    /\ parser' = Gone
    /\ UNCHANGED <<now, env, writers>>

\* observations of a machine account, and of an attribute whose name is
\* that of a column of the report
machine_observation ==
    [name |-> Str(<<"p", "c", "$">>), event_time |-> TimeStr("iso", 2, TRUE),
     attribute_detail |-> ok, attribute_name |-> a_name]
status_observation ==
    [name |-> Str(h1), event_time |-> TimeStr("iso", 2, TRUE),
     attribute_detail |-> ok, attribute_name |-> Str(<<"s", "t", "a", "t", "u", "s">>)]

ReportEvents ==
    {event \in Events : resolve_event(WriterIdle, event).outcome = "resolved"}
        \cup {machine_observation, status_observation}

ReportingNext ==
    \/ StartParser(DEFAULT_DATA_FIELD_MAP, None, FALSE)
    \/ \E event \in ReportEvents : ParseEvent(event)
    \/ Return
    \/ Export

Reporting == Init /\ [][ReportingNext]_vars

\* the last operation was an export, and the report it wrote
Exported == Calls_of("export_database_to_json_report") # {}
Report == db.trace[CHOOSE i \in Calls_of("export_database_to_json_report") : TRUE].data

\* C32: the side effect of the export: export_database_to_json_report
\* deletes every asset whose hostname ends with "$" together with its
\* attributes and leaves it out of the report; every other asset and every
\* attribute of such an asset is stored as it was, the report has one entry
\* for each of these assets and none besides, and the entry of an asset holds
\* each of its attributes under its name, with its time, exactly once.
C32_ExportSideEffect ==
    LET EndsWithDollar(hostname) ==
            \E i \in 1..Len(hostname) : i = Len(hostname) /\ hostname[i] = "$"
        KeptAssets == SelectSeq(pre.assets, LAMBDA a : ~EndsWithDollar(a.hostname))
        Items(entry, key) == {i \in 1..Len(entry) : entry[i].key = key}
    IN
    Exported =>
        /\ db.assets = KeptAssets
        /\ db.attributes = SelectSeq(pre.attributes,
                              LAMBDA a : \E i \in 1..Len(KeptAssets) :
                                            KeptAssets[i].id = a.asset_id)
        /\ Len(Report) = Len(KeptAssets)
        /\ \A i \in 1..Len(KeptAssets) :
              /\ \A j, k \in 1..Len(Report[i]) : Report[i][j].key = Report[i][k].key => j = k
              /\ \A a \in StoredAttributes(KeptAssets[i].id) :
                    \E j \in Items(Report[i], a.name) :
                        Report[i][j].value = [ty |-> "strftime", t |-> a.last_observed.t]
              /\ \A j \in 1..Len(Report[i]) :
                    \/ \E a \in StoredAttributes(KeptAssets[i].id) : a.name = Report[i][j].key
                    \/ \E k \in 1..Len(to_dict(KeptAssets[i])) :
                          to_dict(KeptAssets[i])[k] = Report[i][j]
              /\ \E j \in Items(Report[i], <<"i", "d">>) :
                    Report[i][j].value = [ty |-> "int", v |-> KeptAssets[i].id]
              /\ \E j \in Items(Report[i], <<"h", "o", "s", "t", "n", "a", "m", "e">>) :
                    Report[i][j].value = Str(KeptAssets[i].hostname)

\* an export that deletes a machine account with its attribute and reports
\* the other asset with its own
C32_Witness ==
    /\ Exported
    /\ Len(pre.assets) = 2 /\ Len(pre.attributes) = 2
    /\ \E i \in 1..2 : /\ pre.assets[i].hostname[Len(pre.assets[i].hostname)] = "$"
                        /\ \E k \in 1..2 : pre.attributes[k].asset_id = pre.assets[i].id
    /\ Len(db.assets) = 1 /\ Len(db.attributes) = 1
    /\ Len(Report) = 1
    /\ \E j \in 1..Len(Report[1]) : Report[1][j].key = db.attributes[1].name

====
